---------------------------- MODULE Spec2Model ----------------------------
(***************************************************************************)
(* A model of tetris_solver.py: the TetrisSolver object (grid, counters,   *)
(* can_place, place_piece, clear_lines, evaluate_board, best_move,         *)
(* game_over) and the run_game turn loop that drives it.                   *)
(*                                                                         *)
(* Coordinates are the source's: x is the row (0 = top), y is the column   *)
(* (0 = left).  The grid is kept row by row: board[x] is the set of the    *)
(* columns y with self.board[x, y] == 1.  A piece matrix m is a sequence   *)
(* of rows of 0/1, so the source's piece[i, j] is m[i + 1][j + 1] here.    *)
(***************************************************************************)
EXTENDS Integers, Sequences, FiniteSets, TLC

(***************************************************************************)
(* Program constants.                                                      *)
(***************************************************************************)
BOARD_WIDTH == 10

BOARD_HEIGHT == 20

LINE_CLEAR_POINTS == [n \in 1..4 |-> CASE n = 1 -> 100
                                       [] n = 2 -> 300
                                       [] n = 3 -> 500
                                       [] n = 4 -> 800]

\* run_game: "solver.score += 10  # Bonus for placing a piece"
PLACEMENT_BONUS == 10

\* best_move starts from best_score = -np.inf.  evaluate_board is an integer
\* above -13000 on a 10x20 grid, so any integer below that bound compares
\* with every score exactly as -inf does.
NEG_INF == -1000000

\* best_move starts from best_move = None.
None == <<>>

(***************************************************************************)
(* Bounds of the model.                                                    *)
(***************************************************************************)
\* max_turns of a run in which random.choice may return any of the 7 types.
MaxTurns == 2

\* max_turns of a run in which random.choice follows a fixed periodic pattern.
StreakTurns == 40

\* A direct client of TetrisSolver stacks pieces on the lowest StackRows rows.
StackRows == 6

\* A direct client makes state-changing calls (place_piece, drop_piece,
\* clear_lines) while lines_cleared is below MaxLines.
MaxLines == 1

Rows == 0 .. (BOARD_HEIGHT - 1)

Cols == 0 .. (BOARD_WIDTH - 1)

(***************************************************************************)
(* Pieces.                                                                 *)
(***************************************************************************)
\* np.rot90(m): one counter-clockwise quarter turn.
Rot90(m) ==
    LET r == Len(m)
        c == Len(m[1])
    IN  [i \in 1..c |-> [j \in 1..r |-> m[j][c + 1 - i]]]

RECURSIVE Rot90N(_, _)
\* np.rot90(m, k)
Rot90N(m, k) == IF k = 0 THEN m ELSE Rot90N(Rot90(m), k - 1)

RECURSIVE RotationsFrom(_, _, _)
\* "for i in range(4)" of get_rotations, from i on.
RotationsFrom(m, i, rotations) ==
    IF i = 4 THEN rotations
    ELSE LET rotated == Rot90N(m, i)
         IN  IF \E n \in 1..Len(rotations) : rotations[n] = rotated
             THEN RotationsFrom(m, i + 1, rotations)
             ELSE RotationsFrom(m, i + 1, Append(rotations, rotated))

get_rotations(m) == RotationsFrom(m, 0, <<>>)

PieceTypes == {"I", "O", "T", "L", "J", "S", "Z"}

BASE_TETROMINOS ==
    [k \in PieceTypes |->
        CASE k = "I" -> << <<1, 1, 1, 1>> >>
          [] k = "O" -> << <<1, 1>>,
                           <<1, 1>> >>
          [] k = "T" -> << <<0, 1, 0>>,
                           <<1, 1, 1>> >>
          [] k = "L" -> << <<0, 0, 1>>,
                           <<1, 1, 1>> >>
          [] k = "J" -> << <<1, 0, 0>>,
                           <<1, 1, 1>> >>
          [] k = "S" -> << <<0, 1, 1>>,
                           <<1, 1, 0>> >>
          [] k = "Z" -> << <<1, 1, 0>>,
                           <<0, 1, 1>> >>]

RECURSIVE FilledRows(_, _, _)
FilledRows(m, i, acc) ==
    IF i > Len(m) THEN acc
    ELSE FilledRows(m, i + 1,
                    Append(acc, {j \in 0..(Len(m[1]) - 1) : m[i][j + 1] = 1}))

\* A piece as the solver reads it: piece.shape and, for each row i, the set
\* of the j with piece[i, j] == 1 (filled[i + 1]).
AsPiece(m) == [h |-> Len(m), w |-> Len(m[1]), filled |-> FilledRows(m, 1, <<>>)]

RECURSIVE AsPieces(_, _, _)
AsPieces(ms, n, acc) ==
    IF n > Len(ms) THEN acc ELSE AsPieces(ms, n + 1, Append(acc, AsPiece(ms[n])))

TETROMINOS ==
    [k \in PieceTypes |-> AsPieces(get_rotations(BASE_TETROMINOS[k]), 1, <<>>)]

(***************************************************************************)
(* TetrisSolver.                                                           *)
(***************************************************************************)
EmptyBoard == [x \in Rows |-> {}]

\* numpy indexing of an axis of length BOARD_HEIGHT: an index k in
\* -BOARD_HEIGHT .. -1 addresses row k + BOARD_HEIGHT.  (Below -BOARD_HEIGHT
\* numpy raises IndexError; the callers modelled here pass x >= -BOARD_HEIGHT.)
RowIndex(k) == IF k < 0 THEN k + BOARD_HEIGHT ELSE k

can_place(b, piece, x, y) ==
    IF y < 0 \/ y + piece.w > BOARD_WIDTH THEN FALSE
    ELSE IF x + piece.h > BOARD_HEIGHT THEN FALSE
    ELSE \A i \in 0..(piece.h - 1) : \A j \in piece.filled[i + 1] :
            (y + j) \notin b[RowIndex(x + i)]

RECURSIVE WriteCells(_, _, _, _, _)
\* The loops of place_piece, from piece row i on: every cell (i, j) with
\* piece[i, j] == 1 sets self.board[x + i, y + j] = 1.
WriteCells(b, piece, x, y, i) ==
    IF i = piece.h THEN b
    ELSE WriteCells([b EXCEPT ![RowIndex(x + i)] =
                        @ \cup {y + j : j \in piece.filled[i + 1]}],
                    piece, x, y, i + 1)

\* place_piece validating the bounds only, not the collision with the grid.
place_piece_bounds_only(b, piece, x, y) ==
    IF y < 0 \/ y + piece.w > BOARD_WIDTH \/ x + piece.h > BOARD_HEIGHT
    THEN [ret |-> FALSE, board |-> b]
    ELSE [ret |-> TRUE, board |-> WriteCells(b, piece, x, y, 0)]

place_piece(b, piece, x, y) ==
    IF ~can_place(b, piece, x, y)
    THEN [ret |-> FALSE, board |-> b]
    ELSE [ret |-> TRUE, board |-> WriteCells(b, piece, x, y, 0)]

\* np.all(self.board == 1, axis=1), as the set of the full rows.
FullRows(b) == {x \in Rows : b[x] = Cols}

RECURSIVE CompactNoShift(_, _, _, _, _)
\* The loop of clear_lines writing each kept row at its old index idx instead
\* of new_idx: full rows are emptied but nothing falls.
CompactNoShift(b, full_rows, idx, new_idx, new_board) ==
    IF idx < 0 THEN new_board
    ELSE IF idx \notin full_rows
         THEN CompactNoShift(b, full_rows, idx - 1, new_idx - 1,
                             [new_board EXCEPT ![idx] = b[idx]])
         ELSE CompactNoShift(b, full_rows, idx - 1, new_idx, new_board)

RECURSIVE CompactKeepFull(_, _, _, _, _)
\* The loop of clear_lines without its "if not full_rows[idx]" test: every
\* row is copied, the full ones too.
CompactKeepFull(b, full_rows, idx, new_idx, new_board) ==
    IF idx < 0 THEN new_board
    ELSE CompactKeepFull(b, full_rows, idx - 1, new_idx - 1,
                         [new_board EXCEPT ![new_idx] = b[idx]])

RECURSIVE Compact(_, _, _, _, _)
\* "for idx in range(BOARD_HEIGHT - 1, -1, -1)" of clear_lines.
Compact(b, full_rows, idx, new_idx, new_board) ==
    IF idx < 0 THEN new_board
    ELSE IF idx \notin full_rows
         THEN Compact(b, full_rows, idx - 1, new_idx - 1,
                      [new_board EXCEPT ![new_idx] = b[idx]])
         ELSE Compact(b, full_rows, idx - 1, new_idx, new_board)

Max(a, b) == IF a >= b THEN a ELSE b

\* The points clear_lines awards for num_cleared >= 1 rows at level lvl.
Points(num_cleared, lvl) ==
    IF 1 <= num_cleared /\ num_cleared <= 4
    THEN LINE_CLEAR_POINTS[num_cleared] * lvl
    ELSE (1000 * lvl * num_cleared) \div 4

\* The level clear_lines multiplies the points by: self.level is assigned
\* from the updated lines_cleared before the points are computed.
ScoringLevel(old_level, new_lines) == Max(1, (new_lines \div 10) + 1)

\* s is the solver: [board, score, lines_cleared, level].
clear_lines(s) ==
    LET full_rows == FullRows(s.board)
        num_cleared == Cardinality(full_rows)
    IN  IF num_cleared > 0
        THEN LET new_board == Compact(s.board, full_rows, BOARD_HEIGHT - 1,
                                      BOARD_HEIGHT - 1, EmptyBoard)
                 lines == s.lines_cleared + num_cleared
                 lvl == ScoringLevel(s.level, lines)
             IN  [ret |-> num_cleared, board |-> new_board,
                  score |-> s.score + Points(num_cleared, lvl),
                  lines_cleared |-> lines, level |-> lvl]
        ELSE [ret |-> num_cleared, board |-> s.board, score |-> s.score,
              lines_cleared |-> s.lines_cleared, level |-> s.level]

\* The height difference taken without abs().
AbsMissing(a) == a

Abs(a) == IF a < 0 THEN -a ELSE a

Min(S) == CHOOSE x \in S : \A z \in S : x <= z

RECURSIVE ColumnScan(_, _, _, _)
\* "for col in range(BOARD_WIDTH)" of evaluate_board, from col on, with the
\* list column_heights and the counter holes built so far.
ColumnScan(b, col, column_heights, holes) ==
    IF col = BOARD_WIDTH
    THEN [column_heights |-> column_heights, holes |-> holes]
    ELSE LET filled == {x \in Rows : col \in b[x]}
         IN  IF filled # {}
             THEN LET top == Min(filled)
                  IN  ColumnScan(b, col + 1,
                          Append(column_heights, BOARD_HEIGHT - top),
                          holes + Cardinality(
                              {x \in (top + 1)..(BOARD_HEIGHT - 1) :
                                  col \notin b[x]}))
             ELSE ColumnScan(b, col + 1, Append(column_heights, 0), holes)

RECURSIVE SumSeq(_, _)
\* sum(s[n:]) for a 1-based sequence s
SumSeq(s, n) == IF n > Len(s) THEN 0 ELSE s[n] + SumSeq(s, n + 1)

RECURSIVE Bumpiness(_, _)
\* sum(abs(h[i] - h[i+1]) for i in range(len(h) - 1)), from the n-th entry on
Bumpiness(h, n) ==
    IF n >= Len(h) THEN 0 ELSE Abs(h[n] - h[n + 1]) + Bumpiness(h, n + 1)

evaluate_board(b) ==
    LET lines_cleared == Cardinality(FullRows(b))
        scan == ColumnScan(b, 0, <<>>, 0)
        holes == scan.holes
        bumpiness == Bumpiness(scan.column_heights, 1)
        agg_height == SumSeq(scan.column_heights, 1)
    IN  lines_cleared * 500
        + (4 - lines_cleared) * (-50)
        + holes * (-50)
        + bumpiness * (-10)
        + agg_height * (-1)

RECURSIVE Gravity(_, _, _, _)
\* "while self.can_place(piece, x + 1, y): x += 1"
Gravity(b, piece, x, y) ==
    IF can_place(b, piece, x + 1, y) THEN Gravity(b, piece, x + 1, y) ELSE x

\* "backup_board = self.board.copy()": an independent copy of the grid.
Copy(b) == b

\* best_move without its undo: self.board stays the grid that was written to.
UndoForgotten(backup_board, placed) == placed

\* "self.board = backup_board  # Undo move": the grid self.board names after
\* the speculative placement wrote into `placed`.
Undo(backup_board, placed) == backup_board

\* The comparison of best_move written with >=: a later candidate of equal
\* score replaces the incumbent.
BetterOrEqual(score, best_score) == score >= best_score

\* "if score > best_score": whether the candidate replaces the incumbent.
Better(score, best_score) == score > best_score

RECURSIVE SearchFrom(_, _, _, _)
\* The two nested loops of best_move, from rotation index r_idx (counted from
\* 0) and column y on.  st is [board, best_score, best_move]: self.board and
\* the two locals.
SearchFrom(st, rotations, r_idx, y) ==
    IF r_idx = Len(rotations) THEN st
    ELSE LET piece == rotations[r_idx + 1]
         IN  IF y > BOARD_WIDTH - piece.w
             THEN SearchFrom(st, rotations, r_idx + 1, 0)
             ELSE IF ~can_place(st.board, piece, 0, y)
             THEN SearchFrom(st, rotations, r_idx, y + 1)
             ELSE LET x == Gravity(st.board, piece, 0, y)
                      backup_board == Copy(st.board)
                      placed == place_piece(st.board, piece, x, y).board
                      score == evaluate_board(placed)
                      restored == Undo(backup_board, placed)
                  IN  IF Better(score, st.best_score)
                      THEN SearchFrom([board |-> restored,
                                       best_score |-> score,
                                       best_move |-> <<x, y, r_idx>>],
                                      rotations, r_idx, y + 1)
                      ELSE SearchFrom([board |-> restored,
                                       best_score |-> st.best_score,
                                       best_move |-> st.best_move],
                                      rotations, r_idx, y + 1)

\* Returns [board, best_score, best_move]: the grid the call leaves behind and
\* the pair it returns.
best_move(b, rotations) ==
    SearchFrom([board |-> b, best_score |-> NEG_INF, best_move |-> None],
               rotations, 0, 0)

game_over(b) ==
    ~ \E k \in PieceTypes : \E n \in 1..Len(TETROMINOS[k]) :
        \E y \in 0..(BOARD_WIDTH - TETROMINOS[k][n].w) :
            can_place(b, TETROMINOS[k][n], 0, y)

(***************************************************************************)
(* State.                                                                  *)
(***************************************************************************)
VARIABLES
    board,           \* solver.board
    score,           \* solver.score
    lines_cleared,   \* solver.lines_cleared
    level,           \* solver.level
    pc,              \* position in run_game, or "api" for a direct client
    turn,            \* run_game: turn
    max_turns,       \* run_game: max_turns
    stream,          \* the pattern random.choice follows in this run
    piece_type,      \* run_game: piece_type of the current turn
    best_move_info,  \* run_game: best_move_info
    eval_score,      \* run_game: eval_score
    num_cleared,     \* what the last clear_lines call returned
    status,          \* which final status message run_game printed
    pre,             \* the counters when clear_lines was last called
    last             \* direct client: the last call, its arguments and result

vars == <<board, score, lines_cleared, level, pc, turn, max_turns, stream,
          piece_type, best_move_info, eval_score, num_cleared, status,
          pre, last>>

solver == [board |-> board, score |-> score, lines_cleared |-> lines_cleared,
           level |-> level]

counters == [score |-> score, lines_cleared |-> lines_cleared, level |-> level]

\* TetrisSolver.__init__
SolverInit ==
    /\ board = EmptyBoard
    /\ score = 0
    /\ lines_cleared = 0
    /\ level = 1

NoCall == [op |-> "none", type |-> "I", r_idx |-> 0, x |-> 0, y |-> 0,
           ret |-> FALSE, n |-> 0]

(***************************************************************************)
(* run_game.                                                               *)
(***************************************************************************)
\* random.choice(piece_types) is a free choice among the seven types.  The
\* runs explored are: every choice possible at every turn, for MaxTurns
\* turns (the pattern <<>>); and, for StreakTurns turns, the runs in which
\* the choices follow one of these periodic patterns.
Patterns == {<<"I">>, <<"O">>, <<"T">>, <<"S", "S", "Z", "S">>}

Runs == {[stream |-> <<>>, max_turns |-> MaxTurns]}
        \cup {[stream |-> p, max_turns |-> StreakTurns] : p \in Patterns}

\* What random.choice(piece_types) may return at this turn of this run.
Choices == IF stream = <<>> THEN PieceTypes
           ELSE {stream[(turn % Len(stream)) + 1]}

Init ==
    /\ SolverInit
    /\ pc = "loop"
    /\ turn = 0
    /\ \E run \in Runs : stream = run.stream /\ max_turns = run.max_turns
    /\ piece_type = "I"
    /\ best_move_info = None
    /\ eval_score = NEG_INF
    /\ num_cleared = 0
    /\ status = "running"
    /\ pre = counters
    /\ last = NoCall

LoopCondition == turn < max_turns /\ ~game_over(board)

\* while-condition true; piece_type = random.choice(piece_types);
\* best_move_info, eval_score = solver.best_move(rotations); the branch on
\* best_move_info.
Search(k) ==
    /\ pc = "loop"
    /\ LoopCondition
    /\ LET res == best_move(board, TETROMINOS[k])
       IN  /\ board' = res.board
           /\ best_move_info' = res.best_move
           /\ eval_score' = res.best_score
           /\ pc' = IF res.best_move # None THEN "place" ELSE "break"
    /\ piece_type' = k
    /\ UNCHANGED <<score, lines_cleared, level, turn, max_turns, stream,
                   num_cleared, status, pre, last>>

\* solver.place_piece(chosen_piece, best_x, best_y)
Place ==
    /\ pc = "place"
    /\ LET chosen_piece == TETROMINOS[piece_type][best_move_info[3] + 1]
       IN  board' = place_piece(board, chosen_piece, best_move_info[1],
                                best_move_info[2]).board
    /\ pc' = "clear"
    /\ UNCHANGED <<score, lines_cleared, level, turn, max_turns, stream,
                   piece_type, best_move_info, eval_score, num_cleared,
                   status, pre, last>>

\* solver.clear_lines()
Clear ==
    /\ pc = "clear"
    /\ LET res == clear_lines(solver)
       IN  /\ board' = res.board
           /\ score' = res.score
           /\ lines_cleared' = res.lines_cleared
           /\ level' = res.level
           /\ num_cleared' = res.ret
    /\ pre' = counters
    /\ pc' = "bonus"
    /\ UNCHANGED <<turn, max_turns, stream, piece_type, best_move_info,
                   eval_score, status, last>>

\* The bonus assigned ("score = 10") instead of added.
AddBonusAssigned(sc) == PLACEMENT_BONUS

\* "solver.score += 10  # Bonus for placing a piece"
AddBonus(sc) == sc + PLACEMENT_BONUS

\* solver.score += 10; turn += 1
Bonus ==
    /\ pc = "bonus"
    /\ score' = AddBonus(score)
    /\ turn' = turn + 1
    /\ pc' = "loop"
    /\ UNCHANGED <<board, lines_cleared, level, max_turns, stream, piece_type,
                   best_move_info, eval_score, num_cleared, status, pre,
                   last>>

\* while-condition false
Exit ==
    /\ pc = "loop"
    /\ ~LoopCondition
    /\ pc' = "exit"
    /\ UNCHANGED <<board, score, lines_cleared, level, turn, max_turns, stream,
                   piece_type, best_move_info, eval_score, num_cleared,
                   status, pre, last>>

\* The final status after the loop: "if solver.game_over(): ... elif turn >=
\* max_turns: ..."; neither message is printed otherwise.
Final ==
    /\ pc \in {"exit", "break"}
    /\ status' = IF game_over(board) THEN "game_over"
                 ELSE IF turn >= max_turns THEN "max_turns"
                 ELSE "no_message"
    /\ pc' = "done"
    /\ UNCHANGED <<board, score, lines_cleared, level, turn, max_turns, stream,
                   piece_type, best_move_info, eval_score, num_cleared,
                   pre, last>>

Next ==
    \/ \E k \in Choices : Search(k)
    \/ Place
    \/ Clear
    \/ Bonus
    \/ Exit
    \/ Final

Spec == Init /\ [][Next]_vars

(***************************************************************************)
(* A direct client of TetrisSolver: it constructs a solver and calls       *)
(* can_place, place_piece, drop_piece and clear_lines in any order, with   *)
(* arguments from the sets below.                                          *)
(***************************************************************************)
Arg(type, r_idx, x, y) == [type |-> type, r_idx |-> r_idx, x |-> x, y |-> y]

ArgPiece(a) == TETROMINOS[a.type][a.r_idx + 1]

\* (piece, x, y) handed to place_piece: a floating and a resting horizontal
\* I in columns 0..3, the same with the row given as -1, and positions off the
\* right edge, the left edge and the bottom edge.
PlaceArgs ==
    { Arg("I", 0, 17, 0), Arg("I", 0, 19, 0), Arg("I", 0, -1, 0),
      Arg("I", 0, 19, 7), Arg("I", 0, 19, -1), Arg("I", 0, 20, 0),
      Arg("O", 0, 19, 8) }

\* (piece, x, y) handed to can_place.
CanPlaceArgs ==
    PlaceArgs \cup { Arg("T", 0, 18, 0), Arg("I", 1, -2, 9), Arg("O", 0, 18, 8) }

\* (piece, y_pos) handed to drop_piece; x is not an argument of it.
DropArgs ==
    { Arg("I", 0, 0, 0), Arg("I", 0, 0, 4), Arg("O", 0, 0, 8), Arg("I", 0, 0, 8) }

\* drop_piece(piece, y_pos): [ret, board, x], x being the row it stopped at.
drop_piece(b, piece, y_pos) ==
    LET x == Gravity(b, piece, 0, y_pos)
        res == place_piece(b, piece, x, y_pos)
    IN  [ret |-> res.ret, board |-> res.board, x |-> x]

InitApi ==
    /\ SolverInit
    /\ pc = "api"
    /\ turn = 0
    /\ stream = <<>>
    /\ max_turns = 0
    /\ piece_type = "I"
    /\ best_move_info = None
    /\ eval_score = NEG_INF
    /\ num_cleared = 0
    /\ status = "running"
    /\ pre = counters
    /\ last = NoCall

CallCanPlace(a) ==
    /\ pc = "api"
    /\ last' = [op |-> "can_place", type |-> a.type, r_idx |-> a.r_idx,
                x |-> a.x, y |-> a.y,
                ret |-> can_place(board, ArgPiece(a), a.x, a.y), n |-> 0]
    /\ UNCHANGED <<board, score, lines_cleared, level, pc, turn, max_turns,
                   stream, piece_type, best_move_info, eval_score,
                   num_cleared, status, pre>>

CallPlacePiece(a) ==
    /\ pc = "api"
    /\ lines_cleared < MaxLines
    /\ LET res == place_piece(board, ArgPiece(a), a.x, a.y)
       IN  /\ board' = res.board
           /\ last' = [op |-> "place_piece", type |-> a.type,
                       r_idx |-> a.r_idx, x |-> a.x, y |-> a.y,
                       ret |-> res.ret, n |-> 0]
    /\ UNCHANGED <<score, lines_cleared, level, pc, turn, max_turns, stream,
                   piece_type, best_move_info, eval_score, num_cleared,
                   status, pre>>

CallDropPiece(a) ==
    /\ pc = "api"
    /\ lines_cleared < MaxLines
    /\ LET res == drop_piece(board, ArgPiece(a), a.y)
       IN  /\ res.ret => res.x >= BOARD_HEIGHT - StackRows
           /\ board' = res.board
           /\ last' = [op |-> "drop_piece", type |-> a.type,
                       r_idx |-> a.r_idx, x |-> res.x, y |-> a.y,
                       ret |-> res.ret, n |-> 0]
    /\ UNCHANGED <<score, lines_cleared, level, pc, turn, max_turns, stream,
                   piece_type, best_move_info, eval_score, num_cleared,
                   status, pre>>

CallClearLines ==
    /\ pc = "api"
    /\ lines_cleared < MaxLines
    /\ LET res == clear_lines(solver)
       IN  /\ board' = res.board
           /\ score' = res.score
           /\ lines_cleared' = res.lines_cleared
           /\ level' = res.level
           /\ num_cleared' = res.ret
           /\ last' = [NoCall EXCEPT !.op = "clear_lines", !.n = res.ret]
    /\ pre' = counters
    /\ UNCHANGED <<pc, turn, max_turns, stream, piece_type, best_move_info,
                   eval_score, status>>

NextApi ==
    \/ \E a \in CanPlaceArgs : CallCanPlace(a)
    \/ \E a \in PlaceArgs : CallPlacePiece(a)
    \/ \E a \in DropArgs : CallDropPiece(a)
    \/ CallClearLines

SpecApi == InitApi /\ [][NextApi]_vars

(***************************************************************************)
(* Properties of single calls, checked under SpecApi.                      *)
(***************************************************************************)
LastPiece == ArgPiece(last)

\* The grid cells <<row, column>> under the occupied cells of a piece whose
\* box has its top-left corner at (x, y).
Cells(piece, x, y) ==
    UNION {{<<x + i, y + j>> : j \in piece.filled[i + 1]} :
              i \in 0..(piece.h - 1)}

\* Every occupied piece cell lands inside the grid, on an empty cell.
Fits(b, piece, x, y) ==
    \A c \in Cells(piece, x, y) :
        c[1] \in Rows /\ c[2] \in Cols /\ c[2] \notin b[c[1]]

CountCells(b) == SumSeq([k \in 1..BOARD_HEIGHT |-> Cardinality(b[k - 1])], 1)

\* The indices of the rows of b that are not full, top to bottom.
NonFull(b) ==
    SelectSeq([k \in 1..BOARD_HEIGHT |-> k - 1], LAMBDA x : b[x] # Cols)

\* b2 is b with its n full rows removed: the top n rows of b2 are empty and
\* the rows below them are the rows of b that are not full, in b's order.
Compacted(b, b2, n) ==
    LET keep == NonFull(b)
    IN  /\ Len(keep) = BOARD_HEIGHT - n
        /\ \A x \in 0..(n - 1) : b2[x] = {}
        /\ \A k \in 1..Len(keep) : b2[n + k - 1] = b[keep[k]]
        /\ CountCells(b2) = CountCells(b) - n * BOARD_WIDTH

CountersUnchanged ==
    score' = score /\ lines_cleared' = lines_cleared /\ level' = level

\* C1: can_place(piece, x, y) is false when an occupied piece cell would land
\* on an occupied grid cell or outside rows [0, H) and columns [0, W), for
\* negative x and y too, and true otherwise.
C1_CanPlaceIffFits ==
    last.op = "can_place" =>
        (last.ret <=> Fits(board, LastPiece, last.x, last.y))

\* C2: a place_piece call at a position where can_place is false returns
\* false and changes neither a grid cell nor score, lines_cleared or level
\* (a repeated placement included).
C2_FailedPlaceChangesNothing ==
    [][(/\ last'.op = "place_piece"
        /\ ~can_place(board, ArgPiece(last'), last'.x, last'.y))
       => (last'.ret = FALSE /\ board' = board /\ CountersUnchanged)]_vars

\* A place_piece call has just failed on a position that lies inside the
\* grid and whose cells are all occupied, as when a placement is repeated.
C2_Witness ==
    /\ last.op = "place_piece"
    /\ ~last.ret
    /\ \A c \in Cells(LastPiece, last.x, last.y) :
          c[1] \in Rows /\ c[2] \in Cols /\ c[2] \in board[c[1]]

\* C3 as stated: clear_lines returns the number n of full rows; for n >= 1
\* the rows that are not full keep their order, the grid has exactly n empty
\* rows at the top (row n is not empty), and n * W fewer cells are occupied;
\* for n = 0 grid and counters are unchanged.
C3_ExactlyNEmptyRowsOnTop ==
    [][last'.op = "clear_lines" =>
        LET n == Cardinality(FullRows(board))
        IN  /\ last'.n = n
            /\ n >= 1 => /\ Compacted(board, board', n)
                         /\ n < BOARD_HEIGHT => board'[n] # {}
            /\ n = 0 => (board' = board /\ CountersUnchanged)]_vars

\* C3, amended: as above, but the top n rows of the grid are empty (rows that
\* were empty before the call stay empty below them, so there can be more
\* than n empty rows at the top).
C3_TopNRowsEmpty ==
    [][last'.op = "clear_lines" =>
        LET n == Cardinality(FullRows(board))
        IN  /\ last'.n = n
            /\ n >= 1 => Compacted(board, board', n)
            /\ n = 0 => (board' = board /\ CountersUnchanged)]_vars

\* clear_lines has just removed two full rows that had a row that was not
\* full between them: what was between them is now the bottom row (columns
\* 0..3 empty) and a row with columns 0..3 occupied lies on it.
C3_Witness ==
    /\ last.op = "clear_lines"
    /\ last.n = 2
    /\ board[BOARD_HEIGHT - 1] = 4..9
    /\ 0 \in board[BOARD_HEIGHT - 2]

(***************************************************************************)
(* Properties of run_game, checked under Spec.                             *)
(***************************************************************************)
\* The step of run_game that calls best_move.
SearchStep == pc = "loop" /\ pc' \in {"place", "break"}

\* C4: a clear_lines call made at level 1 that removes n rows, n in 1..4,
\* raises score by 100, 300, 500, 800; at level 2 by twice that; whatever
\* lines_cleared is, also when the clear crosses a multiple of 10.
C4_AwardUsesLevelAtCall ==
    (pc = "bonus" /\ num_cleared \in 1..4 /\ pre.level \in {1, 2})
        => score - pre.score = LINE_CLEAR_POINTS[num_cleared] * pre.level

\* C5 as stated: in every step of a game run score changes only inside
\* clear_lines, and a clear_lines step that clears no row leaves it unchanged.
C5_ScoreChangesOnlyInClearLines ==
    [][/\ pc # "clear" => score' = score
       /\ (pc = "clear" /\ num_cleared' = 0) => score' = score]_vars

\* C5, amended: score changes only by the award of clear_lines and by the 10
\* points run_game adds after each clear_lines call: best_move and
\* place_piece leave it unchanged, a clear_lines step that clears no row
\* leaves it unchanged, one that clears rows raises it by the award, and the
\* bonus step raises it by exactly 10.
C5_ScoreChangesByAwardAndBonus ==
    [][/\ pc \notin {"clear", "bonus"} => score' = score
       /\ (pc = "clear" /\ num_cleared' = 0) => score' = score
       /\ (pc = "clear" /\ num_cleared' > 0)
             => score' = score + Points(num_cleared', level')
       /\ pc = "bonus" => score' = score + 10]_vars

\* A turn in which no row was cleared has ended and score has grown.
C5_Witness == pc = "loop" /\ turn > 0 /\ num_cleared = 0 /\ score = 10 * turn

\* The row a piece entering at row 0 of column y comes to rest at: the
\* lowest row it reaches passing only through rows where it can be placed.
RestRow(b, piece, y) ==
    CHOOSE x \in Rows :
        /\ \A z \in 0..x : can_place(b, piece, z, y)
        /\ ~can_place(b, piece, x + 1, y)

\* The candidates of best_move on grid b, each with the evaluate_board score
\* of b after its placement: <<r, y, x, score>>.
Candidates(b, rotations) ==
    UNION {{<<r, y, RestRow(b, rotations[r + 1], y),
              evaluate_board(place_piece(b, rotations[r + 1],
                  RestRow(b, rotations[r + 1], y), y).board)>> :
              y \in {z \in 0..(BOARD_WIDTH - rotations[r + 1].w) :
                        can_place(b, rotations[r + 1], 0, z)}} :
           r \in 0..(Len(rotations) - 1)}

\* c comes before d in the order rotation index ascending, then column.
Earlier(c, d) == c[1] < d[1] \/ (c[1] = d[1] /\ c[2] <= d[2])

\* move and value are what the claim expects of best_move given the
\* candidates cands.
IsBestOf(cands, move, value) ==
    IF cands = {}
    THEN move = None /\ value = NEG_INF
    ELSE \E c \in cands :
            /\ \A d \in cands : c[4] > d[4] \/ (c[4] = d[4] /\ Earlier(c, d))
            /\ move = <<c[3], c[2], c[1]>>
            /\ value = c[4]

\* C6: best_move returns the candidate of maximal post-placement
\* evaluate_board score over the (rotation, column) pairs placeable at row 0
\* and dropped by gravity, the first such in the order rotation ascending
\* then column ascending; it returns (None, -inf) iff there is no candidate.
C6_BestMoveIsFirstMaximum ==
    [][SearchStep =>
        \A cands \in {Candidates(board, TETROMINOS[piece_type'])} :
            /\ IsBestOf(cands, best_move_info', eval_score')
            /\ (best_move_info' = None) <=> (cands = {})]_vars

\* best_move has just chosen among several candidates of equal, maximal
\* score on a grid that is not empty.
C6_Witness ==
    /\ pc = "place"
    /\ board # EmptyBoard
    /\ \A cands \in {Candidates(board, TETROMINOS[piece_type])} :
          Cardinality({c \in cands : c[4] = eval_score}) > 1

HorizontalI == TETROMINOS["I"][1]

\* C7 as stated: on the empty board best_move over the I rotations chooses
\* rotation 0 resting at row 19, and the horizontal placement scores -204
\* (bumpiness 0) in any column.
C7_HorizontalIScoresMinus204 ==
    (pc = "place" /\ turn = 0 /\ piece_type = "I") =>
        /\ best_move_info[3] = 0
        /\ best_move_info[1] = 19
        /\ eval_score = -204
        /\ \A y \in 0..6 :
              evaluate_board(place_piece(board, HorizontalI, 19, y).board)
                  = -204

\* C7, amended: best_move chooses rotation 0 resting at row 19, in column 0,
\* with score -214 = 0*500 + 4*(-50) + 0*(-50) + 1*(-10) + 4*(-1): the
\* bumpiness of the horizontal placement is 1 in columns 0 and 6 (score -214)
\* and 2 in columns 1..5 (score -224).
C7_HorizontalIScoresMinus214 ==
    (pc = "place" /\ turn = 0 /\ piece_type = "I") =>
        /\ best_move_info = <<19, 0, 0>>
        /\ eval_score = -214
        /\ \A y \in 0..6 :
              evaluate_board(place_piece(board, HorizontalI, 19, y).board)
                  = IF y \in {0, 6} THEN -214 ELSE -224

\* best_move has just returned for the I piece on the empty 10x20 board.
C7_Witness ==
    /\ pc = "place" /\ turn = 0 /\ piece_type = "I"
    /\ board = EmptyBoard
    /\ BOARD_WIDTH = 10 /\ BOARD_HEIGHT = 20

\* C8: best_move leaves the grid cell for cell as it was and leaves score,
\* lines_cleared and level unchanged; the score it returns is that of its
\* move on the grid as it was before the call.
C8_BestMoveRestoresGrid ==
    [][SearchStep =>
        /\ board' = board
        /\ CountersUnchanged
        /\ best_move_info' # None =>
              \A b \in {place_piece(board,
                            TETROMINOS[piece_type'][best_move_info'[3] + 1],
                            best_move_info'[1], best_move_info'[2]).board} :
                  eval_score' = evaluate_board(b)]_vars

\* best_move has just returned a move on a grid that holds pieces.
C8_Witness ==
    pc = "place" /\ turn > 0 /\ board # EmptyBoard /\ best_move_info # None

\* C9: in a game run from the empty board every clear_lines call clears at
\* most 4 rows, and no row is full at the start of a turn.
C9_AtMostFourRowsCleared ==
    /\ num_cleared <= 4
    /\ pc = "loop" => FullRows(board) = {}

\* A turn has just ended in which clear_lines cleared four rows.
C9_Witness == pc = "loop" /\ turn > 0 /\ num_cleared = 4

\* C10: when the turn loop has stopped, game_over() is true or turn >=
\* max_turns, so one of the two final messages is printed; best_move returns
\* None only where game_over() is true.
C10_LoopStopsOnlyWhenOverOrOutOfTurns ==
    /\ pc = "break" => game_over(board)
    /\ pc = "done" => status \in {"game_over", "max_turns"}

=============================================================================
